---- MODULE Spec2Model ----
(***************************************************************************)
(* vismatch-svc: the perceptual-hash cache (src/src/image_hash/mod.rs)     *)
(* and the shared project registry served by the upload and compare        *)
(* handlers (src/src/main.rs).                                             *)
(*                                                                         *)
(* Spec      : the running service. The registry behind a reader-writer   *)
(*             lock, the disk (project folders, image files, sidecar       *)
(*             cache files), upload requests and compare requests, each    *)
(*             advancing one await point or one filesystem call at a time. *)
(* SpecCache : fetch_cache_or_calc_hash as a sequential function over a    *)
(*             disk whose one image file and sidecar files are drawn from  *)
(*             bounded sets.                                               *)
(* SpecScan  : the startup index build of main over a project root whose   *)
(*             folders, image files and sidecar file are drawn from        *)
(*             bounded sets.                                               *)
(***************************************************************************)
EXTENDS Integers, Sequences, FiniteSets, TLC

VARIABLES
    project_dict,   \* main.rs:38  HashMap<String, Vec<ImageHashEntry>>; a function on the registered names
    wlock,          \* the RwLock's writer: an upload id, or NoOwner
    rlocks,         \* the RwLock's readers: a set of compare ids
    dirs,           \* disk: the project folders under the project root
    images,         \* disk: image path -> file content; a path outside DOMAIN is no file
    sidecars,       \* disk: <<image path, cache extension>> -> bytes of the cache file
    up,             \* upload id -> the request's position and locals
    cmp,            \* compare id -> the request's position and locals
    call,           \* the last fetch_cache_or_calc_hash call made in SpecCache, with its result
    scanned,        \* the registry as the startup scan built it; never changes afterwards
    todo            \* main.rs:296  the project folders the startup scan has yet to load

vars == <<project_dict, wlock, rlocks, dirs, images, sidecars, up, cmp, call, scanned, todo>>

----------------------------------------------------------------------------
(* Bounds *)

HashBits == 2           \* bits of a fingerprint (32*32 in mk_hasher)
MaxImage == 2           \* distinct decodable image contents: 1..MaxImage
MaxName == 2            \* image file names a request may use: 1..MaxName
MaxInitImages == 3      \* image files of project "pA" found by the startup scan

Projects == {"pA", "pB"}
Uploads == {"u1", "u2"}
Compares == {"c1"}

Images == 1..MaxImage
QueryImages == {1}      \* the images a compare request may carry
ImageNames == 1..MaxName
BadImage == 0           \* an image file whose bytes do not decode
NoOwner == "none"

----------------------------------------------------------------------------
(* Values *)

\* image_hash/mod.rs:17  enum HashType
HashTypes == {"DHASH", "PHASH", "AHASH"}

\* image_hash/mod.rs:23  cache_ext
cache_ext(hash_type) ==
    CASE hash_type = "DHASH" -> "dhash"
      [] hash_type = "PHASH" -> "phash"
      [] hash_type = "AHASH" -> "ahash"

\* image_hash/mod.rs:72  struct Hash { bits: Vec<bool> }
Hashes == [1..HashBits -> BOOLEAN]

\* image_hash/mod.rs:218  struct ImageHashEntry
ImageHashEntry(image_path, hash_type, bits) ==
    [image_name |-> image_path, hash_type |-> hash_type, hash |-> bits]

NoEntry == [image_name |-> <<"", 0>>, hash_type |-> "", hash |-> <<>>]

\* Result<ImageHashEntry, Box<dyn Error>>
Ok(v) == [ok |-> TRUE, val |-> v, err |-> ""]
Err(msg) == [ok |-> FALSE, val |-> NoEntry, err |-> msg]

\* the bits of n, least significant first
BitsOf(n) == [i \in 1..HashBits |-> ((n \div (2 ^ (i - 1))) % 2) = 1]

KindSalt(hash_type) ==
    CASE hash_type = "DHASH" -> 0
      [] hash_type = "PHASH" -> 1
      [] hash_type = "AHASH" -> 2

\* image_hash/mod.rs:102  calc_hash: the hasher of the kind applied to a decoded
\* image; a deterministic function of the image and the kind.
calc_hash(image, hash_type) == BitsOf((image + KindSalt(hash_type)) % (2 ^ HashBits))

----------------------------------------------------------------------------
(* The sidecar cache file: bincode's standard configuration writes a       *)
(* Vec<bool> as its length followed by one byte per element, 0 or 1.       *)

NoFile == <<-1>>        \* stands for "no such file" where a file content is recorded

\* an encoding that leaves out the length
encode_hash_no_len(bits) == [i \in 1..Len(bits) |-> IF bits[i] THEN 1 ELSE 0]

\* image_hash/mod.rs:134  encode_into_std_write(&hash_pxy, ..)
encode_hash(bits) ==
    <<Len(bits)>> \o [i \in 1..Len(bits) |-> IF bits[i] THEN 1 ELSE 0]

\* a decoding that takes every byte but 0 for true
decode_hash_lenient(bytes) ==
    IF Len(bytes) = 0 THEN [ok |-> FALSE, bits |-> <<>>]
    ELSE LET n == bytes[1] IN
         IF n < 0 \/ Len(bytes) < n + 1 THEN [ok |-> FALSE, bits |-> <<>>]
         ELSE [ok |-> TRUE, bits |-> [i \in 1..n |-> bytes[i + 1] # 0]]

\* image_hash/mod.rs:161  decode_from_std_read: fails on a short file and on a
\* byte that is no boolean; bytes after the last element are not read.
decode_hash(bytes) ==
    IF Len(bytes) = 0 THEN [ok |-> FALSE, bits |-> <<>>]
    ELSE LET n == bytes[1] IN
         IF n < 0 \/ Len(bytes) < n + 1 THEN [ok |-> FALSE, bits |-> <<>>]
         ELSE IF \E i \in 2..(n + 1) : bytes[i] \notin {0, 1}
              THEN [ok |-> FALSE, bits |-> <<>>]
              ELSE [ok |-> TRUE, bits |-> [i \in 1..n |-> bytes[i + 1] = 1]]

\* image_hash/mod.rs:126  image_path.with_added_extension(cache_ext(hash_type))
hash_file_name(image_path, hash_type) == <<image_path, cache_ext(hash_type)>>

\* What a write_hash_cache call meets: "ok"; "create" when File::create fails
\* (line 132, nothing is touched); "encode" when the file was created, hence
\* truncated, and the write of the bytes fails (line 134).
StoreOutcomes == {"ok", "create", "encode"}

\* write_hash_cache that never reaches the file
write_hash_cache_skipped(scs, image_path, bits, hash_type, st) == scs

\* image_hash/mod.rs:122  write_hash_cache: the sidecar files after the call
write_hash_cache(scs, image_path, bits, hash_type, st) ==
    LET f == hash_file_name(image_path, hash_type) IN
    CASE st = "ok"     -> [x \in DOMAIN scs \cup {f} |-> IF x = f THEN encode_hash(bits) ELSE scs[x]]
      [] st = "encode" -> [x \in DOMAIN scs \cup {f} |-> IF x = f THEN <<>> ELSE scs[x]]
      [] st = "create" -> scs

\* fetch_hash_cache that never finds the file
fetch_hash_cache_miss(scs, image_path, hash_type) == Err("cannot open cache file")

\* image_hash/mod.rs:146  fetch_hash_cache
fetch_hash_cache(scs, image_path, hash_type) ==
    LET f == hash_file_name(image_path, hash_type) IN
    IF f \notin DOMAIN scs THEN Err("cannot open cache file")
    ELSE LET d == decode_hash(scs[f]) IN
         IF d.ok THEN Ok(ImageHashEntry(image_path, hash_type, d.bits))
         ELSE Err("cannot deserialize cache file")

\* image_hash/mod.rs:107  calc_image_hash: image::open (line 110) fails when the
\* file is missing, does not decode, or the read fails (io = FALSE).
calc_image_hash(imgs, image_path, hash_type, io) ==
    IF image_path \in DOMAIN imgs /\ imgs[image_path] \in Images /\ io
    THEN Ok(ImageHashEntry(image_path, hash_type, calc_hash(imgs[image_path], hash_type)))
    ELSE Err("cannot open image")

\* fetch_cache_or_calc_hash with line 193 returning the calculation error
fetch_cache_or_calc_hash_recalc_err(imgs, scs, image_path, hash_type, force_rewrite_cache, io, st) ==
    LET cached == fetch_hash_cache(scs, image_path, hash_type)
        fresh  == calc_image_hash(imgs, image_path, hash_type, io)
        stored == write_hash_cache(scs, image_path,
                                   IF cached.ok THEN cached.val.hash ELSE fresh.val.hash,
                                   hash_type, st)
    IN
    IF cached.ok /\ ~force_rewrite_cache
    THEN [res |-> Ok(cached.val), sidecars |-> scs, hash_calls |-> 0, stores |-> <<>>]
    ELSE IF fresh.ok
         THEN [res |-> Ok(fresh.val), sidecars |-> stored, hash_calls |-> 1,
               stores |-> <<IF cached.ok THEN cached.val.hash ELSE fresh.val.hash>>]
         ELSE [res |-> Err(fresh.err), sidecars |-> scs, hash_calls |-> 1, stores |-> <<>>]

\* fetch_cache_or_calc_hash with write_hash_cache(..)? in place of .ok() at
\* lines 190 and 207
fetch_cache_or_calc_hash_store_err(imgs, scs, image_path, hash_type, force_rewrite_cache, io, st) ==
    LET cached == fetch_hash_cache(scs, image_path, hash_type)
        fresh  == calc_image_hash(imgs, image_path, hash_type, io)
        stored == write_hash_cache(scs, image_path,
                                   IF cached.ok THEN cached.val.hash ELSE fresh.val.hash,
                                   hash_type, st)
    IN
    IF cached.ok /\ ~force_rewrite_cache
    THEN [res |-> Ok(cached.val), sidecars |-> scs, hash_calls |-> 0, stores |-> <<>>]
    ELSE IF fresh.ok
         THEN [res |-> IF st = "ok" THEN Ok(fresh.val) ELSE Err("error while serialize"),
               sidecars |-> stored, hash_calls |-> 1,
               stores |-> <<IF cached.ok THEN cached.val.hash ELSE fresh.val.hash>>]
         ELSE [res |-> IF cached.ok THEN Ok(cached.val) ELSE Err(fresh.err),
               sidecars |-> scs, hash_calls |-> 1, stores |-> <<>>]

\* image_hash/mod.rs:179  fetch_cache_or_calc_hash. The record holds the
\* result, the sidecar files after the call, and what a spy on calc_image_hash
\* and on write_hash_cache would have seen.
fetch_cache_or_calc_hash(imgs, scs, image_path, hash_type, force_rewrite_cache, io, st) ==
    LET cached == fetch_hash_cache(scs, image_path, hash_type)
        fresh  == calc_image_hash(imgs, image_path, hash_type, io)
    IN
    IF cached.ok
    THEN IF force_rewrite_cache
         THEN IF fresh.ok
              THEN \* line 190 hands h, the entry read from the cache, to write_hash_cache
                   [res |-> Ok(fresh.val),
                    sidecars |-> write_hash_cache(scs, image_path, cached.val.hash, hash_type, st),
                    hash_calls |-> 1, stores |-> <<cached.val.hash>>]
              ELSE [res |-> Ok(cached.val), sidecars |-> scs, hash_calls |-> 1, stores |-> <<>>]
         ELSE [res |-> Ok(cached.val), sidecars |-> scs, hash_calls |-> 0, stores |-> <<>>]
    ELSE IF fresh.ok
         THEN [res |-> Ok(fresh.val),
               sidecars |-> write_hash_cache(scs, image_path, fresh.val.hash, hash_type, st),
               hash_calls |-> 1, stores |-> <<fresh.val.hash>>]
         ELSE [res |-> Err(fresh.err), sidecars |-> scs, hash_calls |-> 1, stores |-> <<>>]

----------------------------------------------------------------------------
(* Requests at rest *)

\* an upload request before it arrives. pre_in and pre record what the
\* registry held for the project when the request took the write lock.
UpIdle ==
    [pc |-> "idle", project |-> "", name |-> 0, image |-> 0,
     pre_in |-> FALSE, pre |-> <<>>, task |-> "none", hash |-> Err(""), result |-> "none"]

\* what a spy on the hasher and on Hash::dist sees: nothing yet
NoCalls == [hashes |-> <<>>, dists |-> <<>>]

\* a compare request before it arrives
CmpIdle ==
    [pc |-> "idle", project |-> "", image |-> 0, found |-> FALSE, hash_list |-> <<>>,
     task |-> "none", calls |-> NoCalls, dists |-> <<>>, result |-> "none", resp |-> <<>>]

\* no call yet (op = "none"); afterwards the function last called (op), its
\* arguments, the sidecar content (pre) and the image file content (image, -1
\* for no file) it met, and what it returned
NoCall ==
    [op |-> "none", hash_type |-> "", force |-> FALSE, io |-> FALSE, st |-> "",
     pre |-> NoFile, image |-> -1, res |-> Err(""), hash_calls |-> 0, stores |-> <<>>]

----------------------------------------------------------------------------
(* SpecCache: fetch_cache_or_calc_hash on one image path *)

CachePath == <<"pA", 1>>

\* sidecar contents that do not decode: an empty file, a file cut after the
\* length, a file with a byte that is no boolean
CorruptFiles ==
    {<<>>, <<HashBits>>, [i \in 1..(HashBits + 1) |-> IF i = 1 THEN HashBits ELSE 2]}

SidecarContents == {encode_hash(h) : h \in Hashes} \cup CorruptFiles

\* the content of the sidecar file of CachePath for a kind, or NoFile
sidecar_of(scs, hash_type) ==
    IF hash_file_name(CachePath, hash_type) \in DOMAIN scs
    THEN scs[hash_file_name(CachePath, hash_type)]
    ELSE NoFile

InitCache ==
    /\ project_dict = <<>>
    /\ scanned = <<>>
    /\ todo = <<>>
    /\ wlock = NoOwner
    /\ rlocks = {}
    /\ dirs = {"pA"}
    /\ \E c \in Images \cup {BadImage, -1} :
          images = IF c = -1 THEN <<>> ELSE [p \in {CachePath} |-> c]
    /\ \E t \in HashTypes :
          /\ call = [NoCall EXCEPT !.hash_type = t]
          /\ \/ sidecars = <<>>
             \/ sidecars \in [{hash_file_name(CachePath, t)} -> SidecarContents]
    /\ up = [u \in Uploads |-> UpIdle]
    /\ cmp = [c \in Compares |-> CmpIdle]

\* one call of fetch_cache_or_calc_hash(CachePath, hash_type, force) that meets
\* the read outcome io and the store outcome st; hash_type is the kind the
\* behaviour was started with
cache_call(force, io, st) ==
    LET hash_type == call.hash_type
        r == fetch_cache_or_calc_hash(images, sidecars, CachePath, hash_type, force, io, st)
    IN
    /\ sidecars' = r.sidecars
    /\ call' = [op |-> "fetch_cache_or_calc_hash",
                hash_type |-> hash_type, force |-> force, io |-> io, st |-> st,
                pre |-> sidecar_of(sidecars, hash_type),
                image |-> IF CachePath \in DOMAIN images THEN images[CachePath] ELSE -1,
                res |-> r.res, hash_calls |-> r.hash_calls, stores |-> r.stores]
    /\ UNCHANGED <<project_dict, wlock, rlocks, dirs, images, up, cmp, scanned, todo>>

\* main.rs:83  image.save(&image_target_path): the image file is overwritten
\* with another image while its sidecar files stay as they are
image_overwritten(c) ==
    /\ CachePath \in DOMAIN images
    /\ images[CachePath] # c
    /\ images' = [images EXCEPT ![CachePath] = c]
    /\ UNCHANGED <<project_dict, wlock, rlocks, dirs, sidecars, up, cmp, call, scanned, todo>>

\* one call of write_hash_cache(CachePath, bits, hash_type) that meets the
\* store outcome st
store_call(bits, st) ==
    LET hash_type == call.hash_type IN
    /\ sidecars' = write_hash_cache(sidecars, CachePath, bits, hash_type, st)
    /\ call' = [NoCall EXCEPT !.op = "write_hash_cache", !.hash_type = hash_type,
                              !.st = st, !.pre = sidecar_of(sidecars, hash_type),
                              !.stores = <<bits>>]
    /\ UNCHANGED <<project_dict, wlock, rlocks, dirs, images, up, cmp, scanned, todo>>

NextCache ==
    \/ \E force \in BOOLEAN, io \in BOOLEAN, st \in StoreOutcomes :
          cache_call(force, io, st)
    \/ \E bits \in Hashes, st \in StoreOutcomes : store_call(bits, st)
    \/ \E c \in Images : image_overwritten(c)

SpecCache == InitCache /\ [][NextCache]_vars

----------------------------------------------------------------------------
(* The similarity engine *)

\* image_hash/mod.rs:86  Hash::dist: the number of bits that differ
dist(a, b) == Cardinality({i \in DOMAIN a : i \notin DOMAIN b \/ a[i] # b[i]})

\* image_hash/mod.rs:266  calc_distance_from_hash; an ImageDistEntry
calc_distance_from_hash(hash, h_entry) ==
    [image_name |-> h_entry.image_name, distance |-> dist(hash, h_entry.hash)]

\* image_hash/mod.rs:273  calc_similarity_list
calc_similarity_list(image, hash_list) ==
    IF Len(hash_list) = 0 THEN <<>>
    ELSE LET h == calc_hash(image, hash_list[1].hash_type) IN
         [i \in 1..Len(hash_list) |-> calc_distance_from_hash(h, hash_list[i])]

\* a ranking that hashes the image anew for every entry, with the kind of that
\* entry, as calc_distance (mod.rs:255) does
calc_similarity_calls_per_entry(image, hash_list) ==
    [hashes |-> [i \in 1..Len(hash_list) |->
                    [image |-> image, hash_type |-> hash_list[i].hash_type]],
     dists |-> [i \in 1..Len(hash_list) |->
                    [a |-> calc_hash(image, hash_list[i].hash_type), b |-> hash_list[i].hash]]]

\* image_hash/mod.rs:273-292  the calls calc_similarity_list makes: of the
\* hasher (line 285), with the image and the kind it is built for (line 284),
\* and of Hash::dist (line 269), with its two fingerprints
calc_similarity_calls(image, hash_list) ==
    IF Len(hash_list) = 0 THEN NoCalls
    ELSE LET hash_type == hash_list[1].hash_type
             h == calc_hash(image, hash_type)
         IN [hashes |-> <<[image |-> image, hash_type |-> hash_type]>>,
             dists |-> [i \in 1..Len(hash_list) |-> [a |-> h, b |-> hash_list[i].hash]]]

\* e put into the sorted sequence s in front of the entries as far as e
insert_sorted_before_ties(s, e) ==
    LET k == Cardinality({i \in 1..Len(s) : s[i].distance < e.distance}) IN
    SubSeq(s, 1, k) \o <<e>> \o SubSeq(s, k + 1, Len(s))

\* e put into the sorted sequence s behind every entry that is not farther
insert_sorted(s, e) ==
    LET k == Cardinality({i \in 1..Len(s) : s[i].distance <= e.distance}) IN
    SubSeq(s, 1, k) \o <<e>> \o SubSeq(s, k + 1, Len(s))

RECURSIVE sort(_)
\* main.rs:148  diff_result.sort(): stable, by ImageDistEntry::cmp (mod.rs:248)
sort(s) ==
    IF Len(s) = 0 THEN <<>>
    ELSE insert_sorted(sort(SubSeq(s, 1, Len(s) - 1)), s[Len(s)])

----------------------------------------------------------------------------
(* Spec: the service *)

\* main.rs:255  standard_hash_type, and main.rs:228 the kind of every upload
standard_hash_type == "PHASH"

RECURSIVE calc_hash_project_abort(_, _, _, _)
\* a scan of the folder that stops at the first image that fails
calc_hash_project_abort(imgs, scs, listing, hash_type) ==
    IF Len(listing) = 0 THEN [entries |-> <<>>, sidecars |-> scs]
    ELSE LET r == fetch_cache_or_calc_hash(imgs, scs, listing[1], hash_type, FALSE, TRUE, "ok") IN
         IF ~r.res.ok THEN [entries |-> <<>>, sidecars |-> scs]
         ELSE LET rest == calc_hash_project_abort(imgs, r.sidecars, Tail(listing), hash_type)
              IN [entries |-> <<r.res.val>> \o rest.entries, sidecars |-> rest.sidecars]

RECURSIVE calc_hash_project(_, _, _, _)
\* project_mgmt.rs:26  calc_hash_project over the image files the folder lists:
\* fetch_cache_or_calc_hash(f, hash_type, false) on each, the failures dropped.
\* The record holds the entries and the sidecar files after the scan.
calc_hash_project(imgs, scs, listing, hash_type) ==
    IF Len(listing) = 0 THEN [entries |-> <<>>, sidecars |-> scs]
    ELSE LET r == fetch_cache_or_calc_hash(imgs, scs, listing[1], hash_type, FALSE, TRUE, "ok")
             rest == calc_hash_project(imgs, r.sidecars, Tail(listing), hash_type)
         IN [entries |-> (IF r.res.ok THEN <<r.res.val>> ELSE <<>>) \o rest.entries,
             sidecars |-> rest.sidecars]

\* the image files of project "pA" before the service starts: k files, named
\* 1..k, never hashed before
InitialImages(k) == [p \in {"pA"} \X (1..k) |-> ((p[2] - 1) % MaxImage) + 1]

\* main.rs:251  main, stages 1 and 2: the project root is empty, or holds the
\* folder "pA" with up to MaxInitImages image files, which are scanned into the
\* registry.
Init ==
    /\ wlock = NoOwner
    /\ rlocks = {}
    /\ up = [u \in Uploads |-> UpIdle]
    /\ cmp = [c \in Compares |-> CmpIdle]
    /\ call = NoCall
    /\ todo = <<>>
    /\ \/ /\ dirs = {}
          /\ images = <<>>
          /\ sidecars = <<>>
          /\ project_dict = <<>>
       \/ \E k \in 0..MaxInitImages :
             LET scan == calc_hash_project(InitialImages(k), <<>>,
                                           [i \in 1..k |-> <<"pA", i>>], standard_hash_type)
             IN /\ dirs = {"pA"}
                /\ images = InitialImages(k)
                /\ sidecars = scan.sidecars
                /\ project_dict = [p \in {"pA"} |-> scan.entries]
    /\ scanned = project_dict

\* the image each client sends: two clients, two different images
UploadImage(u) == IF u = "u1" THEN 1 ELSE MaxImage

\* an upload request that returned: its locals are gone, the response stays
UpDone(u, result) ==
    [UpIdle EXCEPT !.pc = "done", !.project = up[u].project, !.name = up[u].name,
                   !.image = up[u].image, !.pre_in = up[u].pre_in, !.result = result]

\* a compare request that returned from calc_sim_in_project with an error
CmpDone(c, result) ==
    [CmpIdle EXCEPT !.pc = "done", !.project = cmp[c].project, !.image = cmp[c].image,
                    !.found = cmp[c].found, !.result = result]

\* the path of the image file of upload u (main.rs:58, 77)
image_target_path(u) == <<up[u].project, up[u].name>>

\* main.rs:202  upload_handler up to the call of save_image_to_project:
\* base64_to_image fails (line 214) or the request goes on
upload_handler(u, project_name, image_name, image, decodes) ==
    /\ up[u].pc = "idle"
    /\ up' = [up EXCEPT ![u] =
                IF decodes
                THEN [@ EXCEPT !.pc = "check_dir", !.project = project_name,
                               !.name = image_name, !.image = image]
                ELSE [@ EXCEPT !.pc = "done", !.result = "cannot create image from b64"]]
    /\ UNCHANGED <<project_dict, wlock, rlocks, dirs, images, sidecars, cmp, call, scanned, todo>>

\* main.rs:61  project_path.is_dir()
save_check_dir(u) ==
    /\ up[u].pc = "check_dir"
    /\ up' = [up EXCEPT ![u].pc = IF up[u].project \in dirs THEN "wlock" ELSE "create_dir"]
    /\ UNCHANGED <<project_dict, wlock, rlocks, dirs, images, sidecars, cmp, call, scanned, todo>>

\* main.rs:64  create_dir(project_path): fails when the folder exists by now,
\* or on any other io error
save_create_dir(u, io) ==
    /\ up[u].pc = "create_dir"
    /\ IF up[u].project \notin dirs /\ io
       THEN /\ dirs' = dirs \cup {up[u].project}
            /\ up' = [up EXCEPT ![u].pc = "wlock"]
       ELSE /\ dirs' = dirs
            /\ up' = [up EXCEPT ![u] = UpDone(u, "cannot create project folder")]
    /\ UNCHANGED <<project_dict, wlock, rlocks, images, sidecars, cmp, call, scanned, todo>>

\* main.rs:72  _project_hashes.write().await
save_write_lock(u) ==
    /\ up[u].pc = "wlock"
    /\ wlock = NoOwner
    /\ rlocks = {}
    /\ wlock' = u
    /\ up' = [up EXCEPT ![u].pc = "insert",
                        ![u].pre_in = up[u].project \in DOMAIN project_dict,
                        ![u].pre = IF up[u].project \in DOMAIN project_dict
                                   THEN project_dict[up[u].project] ELSE <<>>]
    /\ UNCHANGED <<project_dict, rlocks, dirs, images, sidecars, cmp, call, scanned, todo>>

\* the registration with entry(project_name).or_default() in place of insert:
\* the entries of a project that is there are kept
save_insert_or_default(u) ==
    /\ up[u].pc = "insert"
    /\ project_dict' = [p \in DOMAIN project_dict \cup {up[u].project} |->
                            IF p \in DOMAIN project_dict THEN project_dict[p] ELSE <<>>]
    /\ up' = [up EXCEPT ![u].pc = "save"]
    /\ UNCHANGED <<wlock, rlocks, dirs, images, sidecars, cmp, call, scanned, todo>>

\* main.rs:74  insert(project_name.to_owned(), Vec::new()): HashMap::insert
\* replaces the value of a key that is present
save_insert(u) ==
    /\ up[u].pc = "insert"
    /\ project_dict' = [p \in DOMAIN project_dict \cup {up[u].project} |->
                            IF p = up[u].project THEN <<>> ELSE project_dict[p]]
    /\ up' = [up EXCEPT ![u].pc = "save"]
    /\ UNCHANGED <<wlock, rlocks, dirs, images, sidecars, cmp, call, scanned, todo>>

\* what image.save meets: "ok"; "create" when the file cannot be created;
\* "encode" when the file was created and the write of the image fails
SaveOutcomes == {"ok", "create", "encode"}

\* a save whose error return leaves the write guard held
save_image_keeps_guard(u, outcome) ==
    /\ up[u].pc = "save"
    /\ images' =
          IF outcome = "create" THEN images
          ELSE [p \in DOMAIN images \cup {image_target_path(u)} |->
                    IF p = image_target_path(u)
                    THEN (IF outcome = "ok" THEN up[u].image ELSE BadImage)
                    ELSE images[p]]
    /\ up' = IF outcome = "ok"
             THEN [up EXCEPT ![u].pc = "await", ![u].task = "running"]
             ELSE [up EXCEPT ![u] = UpDone(u, "error while saving image")]
    /\ wlock' = wlock
    /\ UNCHANGED <<project_dict, rlocks, dirs, sidecars, cmp, call, scanned, todo>>

\* main.rs:83-105  image.save(&image_target_path), then spawn_blocking of the
\* hash task; a failed save returns the error, which drops the write guard
save_image(u, outcome) ==
    /\ up[u].pc = "save"
    /\ images' =
          IF outcome = "create" THEN images
          ELSE [p \in DOMAIN images \cup {image_target_path(u)} |->
                    IF p = image_target_path(u)
                    THEN (IF outcome = "ok" THEN up[u].image ELSE BadImage)
                    ELSE images[p]]
    /\ IF outcome = "ok"
       THEN /\ up' = [up EXCEPT ![u].pc = "await", ![u].task = "running"]
            /\ wlock' = wlock
       ELSE /\ up' = [up EXCEPT ![u] = UpDone(u, "error while saving image")]
            /\ wlock' = NoOwner
    /\ UNCHANGED <<project_dict, rlocks, dirs, sidecars, cmp, call, scanned, todo>>

\* an upload path that hashes with another kind than the startup scan
upload_hash_type_dhash == "DHASH"

\* main.rs:228  the kind upload_handler passes to save_image_to_project
upload_hash_type == "PHASH"

\* main.rs:94-105  the blocking task: fetch_cache_or_calc_hash(path, hash_type,
\* true), run to its end on a worker thread, or a panic inside it. The task of
\* a request that was dropped runs all the same; nobody takes its result.
hash_calc_task(u, io, st, panics) ==
    /\ up[u].task = "running"
    /\ IF panics
       THEN /\ up' = [up EXCEPT ![u].task = IF up[u].pc = "done" THEN "none" ELSE "panicked"]
            /\ sidecars' = sidecars
       ELSE LET r == fetch_cache_or_calc_hash(images, sidecars, image_target_path(u),
                                              upload_hash_type, TRUE, io, st)
            IN /\ up' = [up EXCEPT ![u] =
                           IF up[u].pc = "done" THEN [@ EXCEPT !.task = "none"]
                           ELSE [@ EXCEPT !.task = "done", !.hash = r.res]]
               /\ sidecars' = r.sidecars
    /\ UNCHANGED <<project_dict, wlock, rlocks, dirs, images, cmp, call, scanned, todo>>

\* main.rs:107-117  hash_calc_task.await??, the push into the project's entries,
\* and the return, which drops the write guard
save_push(u) ==
    /\ up[u].pc = "await"
    /\ up[u].task \in {"done", "panicked"}
    /\ IF up[u].task = "done" /\ up[u].hash.ok
       THEN /\ project_dict' =
                  IF up[u].project \in DOMAIN project_dict
                  THEN [project_dict EXCEPT ![up[u].project] = Append(@, up[u].hash.val)]
                  ELSE project_dict
            /\ up' = [up EXCEPT ![u] = UpDone(u, "ok")]
       ELSE /\ project_dict' = project_dict
            /\ up' = [up EXCEPT ![u] = UpDone(u, IF up[u].task = "panicked"
                                                 THEN "task panicked" ELSE up[u].hash.err)]
    /\ wlock' = NoOwner
    /\ UNCHANGED <<rlocks, dirs, images, sidecars, cmp, call, scanned, todo>>

\* main.rs:72, 107  the caller goes away while the request waits at one of its
\* await points: the future is dropped there, which drops the write guard if
\* it is held; a hash task that is running is left to run
upload_dropped(u) ==
    /\ up[u].pc \in {"wlock", "await"}
    /\ up' = [up EXCEPT ![u] =
                [UpDone(u, "dropped") EXCEPT
                    !.task = IF up[u].task = "running" THEN "running" ELSE "none"]]
    /\ wlock' = IF wlock = u THEN NoOwner ELSE wlock
    /\ UNCHANGED <<project_dict, rlocks, dirs, images, sidecars, cmp, call, scanned, todo>>

\* main.rs:164  compare_handler up to the call of calc_sim_in_project:
\* payload.get_image() fails (line 171) or the request goes on
compare_handler(c, project_name, image, decodes) ==
    /\ cmp[c].pc = "idle"
    /\ cmp' = [cmp EXCEPT ![c] =
                 IF decodes
                 THEN [@ EXCEPT !.pc = "rlock", !.project = project_name, !.image = image]
                 ELSE [@ EXCEPT !.pc = "done", !.result = "cannot create image from b64"]]
    /\ UNCHANGED <<project_dict, wlock, rlocks, dirs, images, sidecars, up, call, scanned, todo>>

\* main.rs:130  project_hashes.read().await
calc_sim_read_lock(c) ==
    /\ cmp[c].pc = "rlock"
    /\ wlock = NoOwner
    /\ rlocks' = rlocks \cup {c}
    /\ cmp' = [cmp EXCEPT ![c].pc = "lookup"]
    /\ UNCHANGED <<project_dict, wlock, dirs, images, sidecars, up, call, scanned, todo>>

\* calc_sim_in_project with entry(project_name).or_default() in place of get:
\* a project that is not there is registered with no entries
calc_sim_lookup_or_default(c) ==
    /\ cmp[c].pc = "lookup"
    /\ project_dict' = [p \in DOMAIN project_dict \cup {cmp[c].project} |->
                            IF p \in DOMAIN project_dict THEN project_dict[p] ELSE <<>>]
    /\ cmp' = [cmp EXCEPT ![c].pc = "await", ![c].found = TRUE,
                          ![c].hash_list = project_dict'[cmp[c].project],
                          ![c].task = "running"]
    /\ UNCHANGED <<wlock, rlocks, dirs, images, sidecars, up, call, scanned, todo>>

\* main.rs:133-145, 158  get(project_name): None returns the error, which drops
\* the read guard; Some clones the entries and spawns the distance task
calc_sim_lookup(c) ==
    /\ cmp[c].pc = "lookup"
    /\ IF cmp[c].project \in DOMAIN project_dict
       THEN /\ cmp' = [cmp EXCEPT ![c].pc = "await", ![c].found = TRUE,
                                  ![c].hash_list = project_dict[cmp[c].project],
                                  ![c].task = "running"]
            /\ rlocks' = rlocks
       ELSE /\ cmp' = [cmp EXCEPT ![c] = CmpDone(c, "project not found")]
            /\ rlocks' = rlocks \ {c}
    /\ UNCHANGED <<project_dict, wlock, dirs, images, sidecars, up, call, scanned, todo>>

\* main.rs:142-145  the blocking task: calc_similarity_list(&image, &hash_list),
\* or a panic inside it
diff_calc_task(c, panics) ==
    /\ cmp[c].task = "running"
    /\ cmp' = [cmp EXCEPT ![c] =
                 IF panics THEN [@ EXCEPT !.task = "panicked"]
                 ELSE [@ EXCEPT !.task = "done",
                                !.calls = calc_similarity_calls(cmp[c].image, cmp[c].hash_list),
                                !.dists = calc_similarity_list(cmp[c].image, cmp[c].hash_list)]]
    /\ UNCHANGED <<project_dict, wlock, rlocks, dirs, images, sidecars, up, call, scanned, todo>>

\* main.rs:147-155  diff_calc_task.await?, the sort, and the return, which drops
\* the read guard
calc_sim_await(c) ==
    /\ cmp[c].pc = "await"
    /\ cmp[c].task \in {"done", "panicked"}
    /\ cmp' = [cmp EXCEPT ![c] =
                 IF cmp[c].task = "done"
                 THEN [@ EXCEPT !.pc = "slice", !.task = "none", !.hash_list = <<>>,
                                !.calls = NoCalls, !.dists = sort(cmp[c].dists)]
                 ELSE CmpDone(c, "task panicked")]
    /\ rlocks' = rlocks \ {c}
    /\ UNCHANGED <<project_dict, wlock, dirs, images, sidecars, up, call, scanned, todo>>

\* main.rs:184  the entries the response takes from the ranked list
TopK == 3

\* main.rs:181-197  &dist_vec[0..3]: the slice panics when the list is shorter
compare_handler_slice(c) ==
    /\ cmp[c].pc = "slice"
    /\ cmp' = [cmp EXCEPT ![c] =
                 IF Len(cmp[c].dists) < TopK
                 THEN [@ EXCEPT !.pc = "done", !.result = "panic: range end index out of range"]
                 ELSE [@ EXCEPT !.pc = "done", !.result = "ok",
                                !.resp = SubSeq(cmp[c].dists, 1, TopK)]]
    /\ UNCHANGED <<project_dict, wlock, rlocks, dirs, images, sidecars, up, call, scanned, todo>>

Next ==
    \/ \E u \in Uploads, p \in Projects, n \in ImageNames, d \in BOOLEAN :
          upload_handler(u, p, n, UploadImage(u), d)
    \/ \E u \in Uploads : save_check_dir(u)
    \/ \E u \in Uploads, io \in BOOLEAN : save_create_dir(u, io)
    \/ \E u \in Uploads : save_write_lock(u)
    \/ \E u \in Uploads : save_insert(u)
    \/ \E u \in Uploads, o \in SaveOutcomes : save_image(u, o)
    \/ \E u \in Uploads, io \in BOOLEAN, st \in StoreOutcomes, panics \in BOOLEAN :
          hash_calc_task(u, io, st, panics)
    \/ \E u \in Uploads : save_push(u)
    \/ \E u \in Uploads : upload_dropped(u)
    \/ \E c \in Compares, p \in Projects, i \in QueryImages, d \in BOOLEAN :
          compare_handler(c, p, i, d)
    \/ \E c \in Compares : calc_sim_read_lock(c)
    \/ \E c \in Compares : calc_sim_lookup(c)
    \/ \E c \in Compares, panics \in BOOLEAN : diff_calc_task(c, panics)
    \/ \E c \in Compares : calc_sim_await(c)
    \/ \E c \in Compares : compare_handler_slice(c)

Spec == Init /\ [][Next]_vars

----------------------------------------------------------------------------
(* SpecLive: the service on an empty project root, under fair scheduling *)

\* main.rs:251-310  main on a project root with no project folder
InitLive ==
    /\ wlock = NoOwner
    /\ rlocks = {}
    /\ up = [u \in Uploads |-> UpIdle]
    /\ cmp = [c \in Compares |-> CmpIdle]
    /\ call = NoCall
    /\ todo = <<>>
    /\ dirs = {}
    /\ images = <<>>
    /\ sidecars = <<>>
    /\ project_dict = <<>>
    /\ scanned = <<>>

\* The runtime polls every task that can go on, and a blocking task that was
\* spawned runs to its end: each step of a request that stays possible is
\* taken. A request need not arrive, and a caller need not go away.
Fairness ==
    /\ \A u \in Uploads :
          /\ WF_vars(save_check_dir(u))
          /\ WF_vars(\E io \in BOOLEAN : save_create_dir(u, io))
          /\ WF_vars(save_write_lock(u))
          /\ WF_vars(save_insert(u))
          /\ WF_vars(\E o \in SaveOutcomes : save_image(u, o))
          /\ WF_vars(\E io \in BOOLEAN, st \in StoreOutcomes, panics \in BOOLEAN :
                         hash_calc_task(u, io, st, panics))
          /\ WF_vars(save_push(u))
    /\ \A c \in Compares :
          /\ WF_vars(calc_sim_read_lock(c))
          /\ WF_vars(calc_sim_lookup(c))
          /\ WF_vars(\E panics \in BOOLEAN : diff_calc_task(c, panics))
          /\ WF_vars(calc_sim_await(c))
          /\ WF_vars(compare_handler_slice(c))

\* the steps of Next, with every upload under the one image name 1
NextLive ==
    \/ \E u \in Uploads, p \in Projects, d \in BOOLEAN :
          upload_handler(u, p, 1, UploadImage(u), d)
    \/ \E u \in Uploads : save_check_dir(u)
    \/ \E u \in Uploads, io \in BOOLEAN : save_create_dir(u, io)
    \/ \E u \in Uploads : save_write_lock(u)
    \/ \E u \in Uploads : save_insert(u)
    \/ \E u \in Uploads, o \in SaveOutcomes : save_image(u, o)
    \/ \E u \in Uploads, io \in BOOLEAN, st \in StoreOutcomes, panics \in BOOLEAN :
          hash_calc_task(u, io, st, panics)
    \/ \E u \in Uploads : save_push(u)
    \/ \E u \in Uploads : upload_dropped(u)
    \/ \E c \in Compares, p \in Projects, i \in QueryImages, d \in BOOLEAN :
          compare_handler(c, p, i, d)
    \/ \E c \in Compares : calc_sim_read_lock(c)
    \/ \E c \in Compares : calc_sim_lookup(c)
    \/ \E c \in Compares, panics \in BOOLEAN : diff_calc_task(c, panics)
    \/ \E c \in Compares : calc_sim_await(c)
    \/ \E c \in Compares : compare_handler_slice(c)

SpecLive == InitLive /\ [][NextLive]_vars /\ Fairness

----------------------------------------------------------------------------
(* SpecScan: the startup index build, one project folder at a time *)

\* the image files a project root may hold before the service starts
ScanFiles == ({"pA"} \X ImageNames) \cup {<<"pB", 1>>}

\* what the sidecar file of the first image of "pA" may hold before the scan:
\* a fingerprint, or bytes that do not decode
ScanSidecars == {encode_hash([i \in 1..HashBits |-> TRUE]), <<>>}

\* the names of the image files of folder f
image_names_in(imgs, f) == {n \in ImageNames : <<f, n>> \in DOMAIN imgs}

\* project_mgmt.rs:27-34  read_dir(project_path), filtered by is_image_file:
\* the image files of folder f, in the order of their names or in the
\* opposite order
listing_of(imgs, f, rev) ==
    LET names == image_names_in(imgs, f)
        k == Cardinality(names)
        asc == CHOOSE q \in [1..k -> names] : \A i, j \in 1..k : i < j => q[i] < q[j]
    IN [i \in 1..k |-> <<f, IF rev THEN asc[k + 1 - i] ELSE asc[i]>>]

\* main.rs:251-290  main, stage 1 and the listing of the project root: any set
\* of project folders, each readable or not, in either order; image files that
\* decode or not; at most one sidecar file left by an earlier run
InitScan ==
    /\ project_dict = <<>>
    /\ scanned = <<>>
    /\ wlock = NoOwner
    /\ rlocks = {}
    /\ up = [u \in Uploads |-> UpIdle]
    /\ cmp = [c \in Compares |-> CmpIdle]
    /\ call = NoCall
    /\ dirs \in SUBSET Projects
    /\ \E content \in [{f \in ScanFiles : f[1] \in dirs} -> Images \cup {BadImage, -1}] :
          images = [f \in {g \in DOMAIN content : content[g] # -1} |-> content[f]]
    /\ \/ sidecars = <<>>
       \/ /\ "pA" \in dirs
          /\ sidecars \in [{hash_file_name(<<"pA", 1>>, standard_hash_type)} -> ScanSidecars]
    /\ \E order \in [1..Cardinality(dirs) -> dirs], readable \in [dirs -> BOOLEAN] :
          /\ \A i, j \in DOMAIN order : order[i] = order[j] => i = j
          /\ todo = [i \in DOMAIN order |-> [name |-> order[i], readable |-> readable[order[i]]]]

\* main.rs:297-305  load_or_calc_project_hashes on the next project folder: an
\* error (read_dir fails, project_mgmt.rs:28) leaves the folder out of the
\* registry, Ok registers it with the entries of calc_hash_project
load_or_calc_project_hashes(rev) ==
    /\ todo # <<>>
    /\ LET f == Head(todo).name
           scan == calc_hash_project(images, sidecars, listing_of(images, f, rev),
                                     standard_hash_type)
       IN IF Head(todo).readable
          THEN /\ project_dict' = [p \in DOMAIN project_dict \cup {f} |->
                                      IF p = f THEN scan.entries ELSE project_dict[p]]
               /\ sidecars' = scan.sidecars
          ELSE /\ project_dict' = project_dict
               /\ sidecars' = sidecars
    /\ todo' = Tail(todo)
    /\ UNCHANGED <<wlock, rlocks, dirs, images, up, cmp, call, scanned>>

NextScan == \E rev \in BOOLEAN : load_or_calc_project_hashes(rev)

SpecScan == InitScan /\ [][NextScan]_vars

----------------------------------------------------------------------------
(* Properties of the registry under uploads and compares (Spec)            *)

is_prefix(s, t) == Len(s) <= Len(t) /\ SubSeq(t, 1, Len(s)) = s

\* the step in which upload u returns Ok from save_image_to_project
upload_returns_ok(u) == up[u].pc = "await" /\ up'[u].pc = "done" /\ up'[u].result = "ok"

uploaded_ok(u) == up[u].pc = "done" /\ up[u].result = "ok"

\* the entry a successful upload u adds
upload_entry(u) ==
    ImageHashEntry(<<up[u].project, up[u].name>>, upload_hash_type,
                   calc_hash(up[u].image, upload_hash_type))

\* C1: a successful upload to a project that was in the registry with the
\* entries pre leaves the project with pre followed by the one new entry, and
\* no step ever removes a project or shortens or rewrites its entries.
C1_UploadAppends ==
    [][/\ \A u \in Uploads :
             (upload_returns_ok(u) /\ up[u].pre_in) =>
                 project_dict'[up[u].project] = Append(up[u].pre, up[u].hash.val)
       /\ \A p \in DOMAIN project_dict :
             /\ p \in DOMAIN project_dict'
             /\ is_prefix(project_dict[p], project_dict'[p])]_vars

\* C2: when every client has uploaded, with success, an image of its own name
\* to the same project, and the project was absent or empty when the service
\* started, the project's index has one entry per upload and no other.
C2_ConcurrentUploadsAllKept ==
    \A p \in Projects :
        ( /\ \A u \in Uploads : uploaded_ok(u) /\ up[u].project = p
          /\ \A u, v \in Uploads : u # v => up[u].name # up[v].name
          /\ p \in DOMAIN scanned => scanned[p] = <<>> )
        => /\ p \in DOMAIN project_dict
           /\ Len(project_dict[p]) = Cardinality(Uploads)
           /\ \A u \in Uploads :
                 \E i \in 1..Len(project_dict[p]) :
                     project_dict[p][i].image_name = <<p, up[u].name>>

\* C3: an upload to a project name that is not in the registry leaves that
\* project with exactly its one entry, and a compare that then finds this one
\* entry in the project ends with a response that holds it.
C3_NewProjectThenCompare ==
    [][/\ \A u \in Uploads :
             (upload_returns_ok(u) /\ ~up[u].pre_in) =>
                 /\ up[u].project \in DOMAIN project_dict'
                 /\ project_dict'[up[u].project] = <<up[u].hash.val>>
       /\ \A c \in Compares, u \in Uploads :
             ( /\ cmp[c].pc = "slice" /\ cmp'[c].pc = "done"
               /\ uploaded_ok(u) /\ ~up[u].pre_in
               /\ cmp[c].project = up[u].project
               /\ Len(cmp[c].dists) = 1
               /\ cmp[c].dists[1].image_name = upload_entry(u).image_name )
             => /\ cmp'[c].result = "ok"
                /\ \E i \in 1..Len(cmp'[c].resp) :
                      cmp'[c].resp[i].image_name = upload_entry(u).image_name]_vars

Min(a, b) == IF a < b THEN a ELSE b

\* C4: a compare that ranked the N entries of its project ends with a response
\* of the first min(N, 3) ranked entries, and never faults.
C4_CompareReturnsMinN3 ==
    \A c \in Compares :
        (cmp[c].pc = "done" /\ cmp[c].found /\ cmp[c].result # "task panicked") =>
            /\ cmp[c].result = "ok"
            /\ cmp[c].resp = SubSeq(cmp[c].dists, 1, Min(Len(cmp[c].dists), TopK))

\* C5: calc_sim_in_project on a project name that is no key of the registry
\* returns the project-not-found error, and no step of a compare request
\* changes the registry.
C5_UnknownProjectNotFound ==
    [][\A c \in Compares :
          /\ cmp'[c] # cmp[c] => project_dict' = project_dict
          /\ ( /\ cmp[c].pc = "lookup" /\ cmp'[c].pc # "lookup"
               /\ cmp[c].project \notin DOMAIN project_dict )
             => /\ cmp'[c].pc = "done"
                /\ cmp'[c].result = "project not found"
                /\ ~cmp'[c].found
                /\ c \notin rlocks']_vars

C5_Witness ==
    \E c \in Compares :
        /\ cmp[c].pc = "done"
        /\ cmp[c].result = "project not found"
        /\ cmp[c].project \notin DOMAIN project_dict
        /\ DOMAIN project_dict # {}

\* dists ranks hash_list against image: one distance entry per index entry,
\* in the order of the distances, index order among equal distances
ranks(dists, image, hash_list) ==
    LET N == Len(hash_list) IN
    /\ Len(dists) = N
    /\ \E f \in [1..N -> 1..N] :
          /\ \A i, j \in 1..N : f[i] = f[j] => i = j
          /\ \A i \in 1..N :
                /\ dists[i].image_name = hash_list[f[i]].image_name
                /\ dists[i].distance =
                      dist(calc_hash(image, hash_list[1].hash_type), hash_list[f[i]].hash)
          /\ \A i, j \in 1..N :
                i < j => \/ dists[i].distance < dists[j].distance
                         \/ dists[i].distance = dists[j].distance /\ f[i] < f[j]

\* C13: the ranked list calc_sim_in_project returns for an index of N entries
\* has exactly N distance entries (none for N = 0), one per index entry with
\* that entry's image identifier, in non-decreasing distance, entries of equal
\* distance in index order; distances 5, 1, 3 rank as 1, 3, 5, of which the
\* first two are 1, 3.
C13_RankedList ==
    [][\A c \in Compares :
          (cmp[c].pc = "await" /\ cmp'[c].pc = "slice") =>
              /\ ranks(cmp'[c].dists, cmp[c].image, cmp[c].hash_list)
              /\ LET demo == [i \in 1..3 |-> [image_name |-> <<"demo", i>>,
                                               distance |-> <<5, 1, 3>>[i]]]
                 IN SubSeq(sort(demo), 1, 2) = <<demo[2], demo[3]>>]_vars

\* a ranked list that is not in index order and holds two entries as far
C13_Witness ==
    \E c \in Compares :
        /\ cmp[c].pc = "slice"
        /\ \E i \in 1..(Len(cmp[c].dists) - 1) :
              cmp[c].dists[i].distance = cmp[c].dists[i + 1].distance
        /\ \E i \in 1..(Len(cmp[c].dists) - 1) :
              cmp[c].dists[i].image_name[2] > cmp[c].dists[i + 1].image_name[2]

\* the distance task of compare c has run calc_similarity_list to its end
ranked(c) == cmp[c].pc = "await" /\ cmp[c].task = "done"

\* C21: calc_similarity_list over an index of N >= 1 entries calls the hasher
\* exactly once, on the query image, with the kind of the first entry, and
\* calls Hash::dist exactly N times, the i-th time on that one query
\* fingerprint and the fingerprint of the i-th entry, which gives the i-th
\* distance.
C21_OneHashNDistances ==
    \A c \in Compares :
        (ranked(c) /\ Len(cmp[c].hash_list) >= 1) =>
            LET N == Len(cmp[c].hash_list)
                first_kind == cmp[c].hash_list[1].hash_type
                calls == cmp[c].calls
            IN /\ calls.hashes = <<[image |-> cmp[c].image, hash_type |-> first_kind]>>
               /\ Len(calls.dists) = N
               /\ Len(cmp[c].dists) = N
               /\ \A i \in 1..N :
                     /\ calls.dists[i].a = calc_hash(cmp[c].image, first_kind)
                     /\ calls.dists[i].b = cmp[c].hash_list[i].hash
                     /\ cmp[c].dists[i].distance = dist(calls.dists[i].a, calls.dists[i].b)

\* a ranking over several entries has ended
C21_Witness ==
    \E c \in Compares :
        /\ ranked(c) /\ Len(cmp[c].hash_list) >= 2
        /\ Len(cmp[c].calls.hashes) = 1
        /\ Len(cmp[c].calls.dists) = Len(cmp[c].hash_list)

\* upload u has spawned its hash task and not yet returned from the await
hashing(u) == up[u].pc = "await"

\* compare c has spawned its distance task and not yet returned from the await
ranking(c) == cmp[c].pc = "await"

\* C14: no upload holds the registry's write lock while its image hashing is
\* in progress or awaited, and no compare holds the registry's read lock while
\* its distance computation over the project is in progress or awaited.
C14_HeavyWorkOutsideLock ==
    /\ \A u \in Uploads : hashing(u) => wlock # u
    /\ \A c \in Compares : ranking(c) => c \notin rlocks

\* C15: while an upload to one project is in its hashing phase, a compare or
\* an upload on another project that asks for the registry gets it: its lock
\* step is enabled, it does not wait for the hashing to end.
C15_DifferentProjectsIndependent ==
    \A u \in Uploads :
        hashing(u) =>
            /\ \A c \in Compares :
                  (cmp[c].pc = "rlock" /\ cmp[c].project # up[u].project) =>
                      ENABLED calc_sim_read_lock(c)
            /\ \A v \in Uploads \ {u} :
                  (up[v].pc = "wlock" /\ up[v].project # up[u].project) =>
                      ENABLED save_write_lock(v)

\* the step in which compare c clones the entries of its project
takes_snapshot(c) == cmp[c].pc = "lookup" /\ cmp'[c].pc = "await"

\* C16: the entries a compare clones for its project are the project's index
\* before or after each append, a prefix of the sequence of all entries the
\* project ever held or is later given: no upload is inside its write section
\* at that moment, the entries the project held when the service started lead
\* the snapshot, and the entry of every upload to the project that has
\* returned Ok is in it.
C16_SnapshotIsPrefixOfHistory ==
    [][\A c \in Compares :
          takes_snapshot(c) =>
              LET P == cmp[c].project
                  snapshot == cmp'[c].hash_list
              IN /\ wlock = NoOwner
                 /\ P \in DOMAIN scanned => is_prefix(scanned[P], snapshot)
                 /\ \A u \in Uploads :
                       (uploaded_ok(u) /\ up[u].project = P) =>
                           \E i \in 1..Len(snapshot) :
                               snapshot[i].image_name = upload_entry(u).image_name]_vars

\* the step in which upload u is dropped while its hash task is in flight
dropped_in_flight(u) ==
    /\ up[u].pc = "await" /\ up[u].task = "running"
    /\ up'[u].pc = "done" /\ up'[u].result = "dropped"

\* C17: when an upload is dropped while its hash task is in flight, the
\* registry is as it was before the request: the project is among the keys
\* exactly if it was, with the entries it had (the request has held the write
\* lock since it recorded them, so nothing else changed in between), and no
\* later step of the dropped request changes the registry.
C17_DroppedUploadLeavesRegistry ==
    [][\A u \in Uploads :
          /\ dropped_in_flight(u) =>
                IF up[u].pre_in
                THEN /\ up[u].project \in DOMAIN project_dict'
                     /\ project_dict'[up[u].project] = up[u].pre
                ELSE up[u].project \notin DOMAIN project_dict'
          /\ (up[u].pc = "done" /\ up[u].result = "dropped" /\ up'[u] # up[u]) =>
                project_dict' = project_dict]_vars

\* C19: when an upload returns Ok, the entry of every upload to the same
\* project, under another image name, that returned Ok before it stands in the
\* project's index ahead of the entry of this one: the entries are in the
\* order in which the write sections ended.
C19_EntriesInCompletionOrder ==
    [][\A u, v \in Uploads :
          ( /\ upload_returns_ok(u) /\ uploaded_ok(v) /\ u # v
            /\ up[v].project = up[u].project /\ up[v].name # up[u].name )
          => LET index == project_dict'[up[u].project] IN
             \E i, j \in 1..Len(index) :
                 /\ i < j
                 /\ index[i].image_name = upload_entry(v).image_name
                 /\ index[j].image_name = upload_entry(u).image_name]_vars

\* C20: every entry of the registry carries the one kind of the service, so
\* all entries of a project carry the same kind, and the entries a compare
\* ranks all carry the kind of the first of them.
C20_OneKindPerProject ==
    /\ \A p \in DOMAIN project_dict :
          \A i \in 1..Len(project_dict[p]) :
              project_dict[p][i].hash_type = standard_hash_type
    /\ \A c \in Compares :
          \A i \in 1..Len(cmp[c].hash_list) :
              cmp[c].hash_list[i].hash_type = cmp[c].hash_list[1].hash_type

\* one project holds the entry of an upload, another entries of the startup
\* scan, and a compare is ranking several entries
C20_Witness ==
    /\ \E u \in Uploads :
          /\ uploaded_ok(u)
          /\ up[u].project \in DOMAIN project_dict
          /\ project_dict[up[u].project] = <<upload_entry(u)>>
    /\ \E p \in DOMAIN scanned : Len(scanned[p]) >= 2 /\ project_dict[p] = scanned[p]
    /\ \E c \in Compares : ranking(c) /\ Len(cmp[c].hash_list) >= 2

\* the step in which upload u returns an error after it took the write lock:
\* image.save failed, or the hash failed, or the hash task panicked
upload_fails(u) ==
    /\ up[u].pc \in {"save", "await"}
    /\ up'[u].pc = "done"
    /\ up'[u].result \notin {"ok", "dropped"}

\* C22: an upload that fails after it started leaves the registry as the
\* request found it: the project is among the keys exactly if it was, with the
\* entries it had (the request has held the write lock since it recorded them).
C22_FailedUploadLeavesRegistry ==
    [][\A u \in Uploads :
          upload_fails(u) =>
              IF up[u].pre_in
              THEN /\ up[u].project \in DOMAIN project_dict'
                   /\ project_dict'[up[u].project] = up[u].pre
              ELSE up[u].project \notin DOMAIN project_dict']_vars

\* C24: no image identifier occurs twice in the index of a project.
C24_NoDuplicateIdentifier ==
    \A p \in DOMAIN project_dict :
        \A i, j \in 1..Len(project_dict[p]) :
            project_dict[p][i].image_name = project_dict[p][j].image_name => i = j

\* an image name uploaded with success to a project that held it from the
\* startup scan, or uploaded there twice, stands in the index once
C24_Witness ==
    \E u \in Uploads :
        /\ uploaded_ok(u)
        /\ \/ /\ up[u].project \in DOMAIN scanned
              /\ \E i \in 1..Len(scanned[up[u].project]) :
                    scanned[up[u].project][i].image_name = upload_entry(u).image_name
           \/ \E v \in Uploads \ {u} :
                 uploaded_ok(v) /\ upload_entry(v).image_name = upload_entry(u).image_name
        /\ up[u].project \in DOMAIN project_dict
        /\ Cardinality({i \in 1..Len(project_dict[up[u].project]) :
               project_dict[up[u].project][i].image_name = upload_entry(u).image_name}) = 1

\* C25: no upload fails with the project-folder creation error because the
\* folder came to exist between its is_dir check and its create_dir: when
\* create_dir fails, the folder is still not there.
C25_NoCreateDirRace ==
    [][\A u \in Uploads :
          ( /\ up[u].pc = "create_dir" /\ up'[u].pc = "done"
            /\ up'[u].result = "cannot create project folder" )
          => up[u].project \notin dirs]_vars

----------------------------------------------------------------------------
(* Termination of the requests (SpecLive)                                  *)

----------------------------------------------------------------------------
(* Properties of the startup index build (SpecScan)                        *)

\* the step in which the scan is through with the next project folder
loads_project == todo # <<>> /\ todo' = Tail(todo)

\* the entry fetch-or-compute gives for an image file on the disk as it is: the
\* one loaded from a sidecar file that decodes, else the one hashed from an
\* image that decodes, else none
scan_entry(path) ==
    LET cached == fetch_hash_cache(sidecars, path, standard_hash_type)
        fresh == calc_image_hash(images, path, standard_hash_type, TRUE)
    IN IF cached.ok THEN cached ELSE fresh

\* C18: loading a project folder leaves every project registered so far as it
\* is, and a folder that can be read is registered, whatever failed before it,
\* with exactly one entry for each of its image files that loaded or hashed,
\* and none for the image files that failed.
C18_ScanDropsOnlyFailures ==
    [][loads_project =>
          LET f == Head(todo).name
              good == {path \in DOMAIN images : path[1] = f /\ scan_entry(path).ok}
          IN /\ \A p \in DOMAIN project_dict \ {f} :
                   p \in DOMAIN project_dict' /\ project_dict'[p] = project_dict[p]
             /\ Head(todo).readable =>
                   /\ f \in DOMAIN project_dict'
                   /\ Len(project_dict'[f]) = Cardinality(good)
                   /\ \A path \in good :
                         \E i \in 1..Len(project_dict'[f]) :
                             project_dict'[f][i] = scan_entry(path).val]_vars

\* the scan is over: "pA" is registered with the entry of its second image
\* only, its first image having failed, and the folder "pB" having failed
C18_Witness ==
    /\ todo = <<>>
    /\ "pB" \in dirs /\ "pB" \notin DOMAIN project_dict
    /\ <<"pA", 1>> \in DOMAIN images /\ images[<<"pA", 1>>] = BadImage
    /\ "pA" \in DOMAIN project_dict
    /\ Len(project_dict["pA"]) = 1
    /\ project_dict["pA"][1].image_name = <<"pA", 2>>

\* C23 (on Spec): once every upload that was made has returned Ok, the
\* registry is what a startup scan of the disk as it is would build: the
\* registered projects are the project folders, the image identifiers of a
\* project's index are its image files, and the fingerprint of each entry is
\* the one fetch-or-compute gives for that file.
C23_RegistryMatchesRescan ==
    ( /\ \E u \in Uploads : uploaded_ok(u)
      /\ \A u \in Uploads : up[u].pc = "idle" \/ uploaded_ok(u) )
    => /\ DOMAIN project_dict = dirs
       /\ \A p \in DOMAIN project_dict :
             /\ {project_dict[p][i].image_name : i \in 1..Len(project_dict[p])}
                   = {path \in DOMAIN images : path[1] = p}
             /\ \A i \in 1..Len(project_dict[p]) :
                   project_dict[p][i].hash = scan_entry(project_dict[p][i].image_name).val.hash

----------------------------------------------------------------------------
(* Properties of fetch_cache_or_calc_hash, stated on the last call of      *)
(* SpecCache and the disk it left.                                         *)

called == call.op = "fetch_cache_or_calc_hash"
\* the sidecar file the call met existed and decoded
call_warm == called /\ decode_hash(call.pre).ok
\* the call met no sidecar file
call_cold == called /\ call.pre = NoFile
\* calc_image_hash could open and hash the image the call met
call_can_hash == called /\ call.image \in Images /\ call.io
\* the entries the call could return
call_cached == ImageHashEntry(CachePath, call.hash_type, decode_hash(call.pre).bits)
call_fresh == ImageHashEntry(CachePath, call.hash_type, calc_hash(call.image, call.hash_type))

\* C6: a call with force_rewrite_cache = false that meets a sidecar file that
\* decodes returns the cached fingerprint, never calls calc_image_hash, never
\* calls write_hash_cache, and leaves the sidecar file as it was.
C6_WarmNoForceReturnsCache ==
    (call_warm /\ ~call.force) =>
        /\ call.res = Ok(call_cached)
        /\ call.hash_calls = 0
        /\ call.stores = <<>>
        /\ sidecar_of(sidecars, call.hash_type) = call.pre

C6_Witness ==
    /\ call_warm /\ ~call.force /\ call_can_hash
    /\ call_fresh # call_cached
    /\ call.res = Ok(call_cached)

\* C7: a call with force_rewrite_cache = true that meets a warm cache, whose
\* recomputation succeeds and whose store succeeds, returns the fresh
\* fingerprint, and loading the sidecar afterwards yields that same fingerprint.
C7_ForcedRecomputeStoresFresh ==
    (call_warm /\ call.force /\ call_can_hash /\ call.st = "ok") =>
        /\ call.res = Ok(call_fresh)
        /\ fetch_hash_cache(sidecars, CachePath, call.hash_type) = call.res

\* C8: a call with force_rewrite_cache = true that meets a warm cache always
\* calls calc_image_hash; when that fails the call returns Ok with the cached
\* entry and the sidecar file is as it was.
C8_ForcedRecomputeFallsBack ==
    (call_warm /\ call.force) =>
        /\ call.hash_calls = 1
        /\ ~call_can_hash =>
              /\ call.res = Ok(call_cached)
              /\ call.stores = <<>>
              /\ sidecar_of(sidecars, call.hash_type) = call.pre

C8_Witness ==
    /\ call_warm /\ call.force /\ ~call_can_hash
    /\ call.res = Ok(call_cached)

\* what a call with force_rewrite_cache = false would do on the disk as it is
\* now, whatever outcomes it meets: return the entry e without calling
\* calc_image_hash
next_call_returns_cached(e) ==
    \A io \in BOOLEAN, st \in StoreOutcomes :
        LET r == fetch_cache_or_calc_hash(images, sidecars, CachePath, call.hash_type, FALSE, io, st) IN
        r.res = Ok(e) /\ r.hash_calls = 0

\* C9 as stated: on a cold cache, a computation that succeeds is returned and
\* stored, so that a following call with force_rewrite_cache = false returns
\* the same fingerprint without hashing; a computation that fails is returned
\* as the error and no sidecar file is created.
C9_ColdMissAsStated ==
    call_cold =>
        /\ call_can_hash => (call.res = Ok(call_fresh) /\ next_call_returns_cached(call_fresh))
        /\ ~call_can_hash =>
              (~call.res.ok /\ sidecar_of(sidecars, call.hash_type) = NoFile)

\* C9 amended: the following call finds the fingerprint when the store of the
\* first call succeeded.
C9_ColdMiss ==
    call_cold =>
        /\ call_can_hash =>
              /\ call.res = Ok(call_fresh)
              /\ call.st = "ok" => next_call_returns_cached(call_fresh)
        /\ ~call_can_hash =>
              (~call.res.ok /\ sidecar_of(sidecars, call.hash_type) = NoFile)

C9_Witness ==
    /\ call_cold /\ call_can_hash /\ call.st = "ok"
    /\ call.res = Ok(call_fresh)
    /\ sidecar_of(sidecars, call.hash_type) = encode_hash(call_fresh.hash)

\* C10: whenever calc_image_hash succeeds on the cold-miss path or on the
\* forced-recompute path, the call returns Ok with the fresh fingerprint
\* whatever write_hash_cache returned.
C10_StoreFailureNeverFails ==
    (call_can_hash /\ (~call_warm \/ call.force)) => call.res = Ok(call_fresh)

C10_Witness ==
    /\ call_can_hash /\ call.st # "ok"
    /\ \/ call_cold
       \/ call_warm /\ call.force /\ call_fresh # call_cached
    /\ call.res = Ok(call_fresh)

\* the sidecar file the call met existed and did not decode
call_corrupt == called /\ call.pre \in CorruptFiles

\* the same call on the same image with no sidecar file at all
call_on_absent ==
    fetch_cache_or_calc_hash(IF call.image = -1 THEN <<>> ELSE [p \in {CachePath} |-> call.image],
                             <<>>, CachePath, call.hash_type, call.force, call.io, call.st)

\* C11 as stated: a call, with either value of force_rewrite_cache, that meets
\* a sidecar file that does not decode recomputes the fingerprint from the
\* image, returns it, and overwrites the sidecar, so that loading the sidecar
\* afterwards yields the recomputed fingerprint.
C11_CorruptOverwrittenAsStated ==
    (call_corrupt /\ call_can_hash) =>
        /\ call.res = Ok(call_fresh)
        /\ fetch_hash_cache(sidecars, CachePath, call.hash_type) = Ok(call_fresh)

\* C11 amended: a sidecar file that does not decode is treated as an absent
\* one (same result, same calls of calc_image_hash and write_hash_cache); a
\* computation that succeeds is returned and handed to write_hash_cache, and
\* when that store succeeds loading the sidecar yields the recomputed
\* fingerprint.
C11_CorruptIsMiss ==
    call_corrupt =>
        /\ call.res = call_on_absent.res
        /\ call.hash_calls = call_on_absent.hash_calls
        /\ call.stores = call_on_absent.stores
        /\ call.hash_calls = 1
        /\ call_can_hash =>
              /\ call.res = Ok(call_fresh)
              /\ call.stores = <<call_fresh.hash>>
              /\ call.st = "ok" =>
                    fetch_hash_cache(sidecars, CachePath, call.hash_type) = Ok(call_fresh)

C11_Witness ==
    /\ call_corrupt /\ ~call.force /\ call_can_hash /\ call.st = "ok"
    /\ Len(call.pre) = HashBits + 1
    /\ call.res = Ok(call_fresh)
    /\ sidecar_of(sidecars, call.hash_type) = encode_hash(call_fresh.hash)

\* C12: write_hash_cache(path, fp, kind) that succeeds, followed by
\* fetch_hash_cache(path, kind), returns the entry with the fingerprint fp bit
\* for bit, the kind and the path: for the store just made on the disk as it
\* is, and for every fingerprint, path and kind on any disk reached.
C12_StoreLoadRoundTrip ==
    /\ (call.op = "write_hash_cache" /\ call.st = "ok") =>
           fetch_hash_cache(sidecars, CachePath, call.hash_type)
               = Ok(ImageHashEntry(CachePath, call.hash_type, call.stores[1]))
    /\ \A fp \in Hashes, path \in Projects \X ImageNames, kind \in HashTypes :
           fetch_hash_cache(write_hash_cache(sidecars, path, fp, kind, "ok"), path, kind)
               = Ok(ImageHashEntry(path, kind, fp))

\* a store of the all-zero fingerprint over a sidecar file that held another
C12_Witness ==
    /\ call.op = "write_hash_cache" /\ call.st = "ok"
    /\ call.stores = <<[i \in 1..HashBits |-> FALSE]>>
    /\ call.pre \notin {NoFile, encode_hash(call.stores[1])}
    /\ sidecar_of(sidecars, call.hash_type) = encode_hash(call.stores[1])

====
